---- MODULE Spec2Model ----
(***************************************************************************)
(* Model of the URL shortener of src/server.js: the handlers               *)
(*   POST /api/shorten   (lines 84-128)                                    *)
(*   GET  /api/stats/:shortCode (lines 131-157)                            *)
(*   GET  /api/urls      (lines 160-197)                                   *)
(*   GET  /:shortCode    (lines 200-236)                                   *)
(* running concurrently against the table 'urls' of the backing store.     *)
(* Every await of a handler is a suspension point: one action per await,   *)
(* which performs the store call and runs the handler up to its next       *)
(* await.  The click accounting of a redirect is a detached promise chain  *)
(* (rpc, then an optional update) that runs after the response.            *)
(***************************************************************************)
EXTENDS Integers, Sequences, FiniteSets, TLC

\* ------------------------------------------------------------------ bounds
\* number of HTTP requests in one execution of Spec (shorten and redirect)
NReq == 3

\* number of HTTP requests in one execution of SpecShorten (shorten only)
NShorten == 2

\* number of HTTP requests in one execution of SpecUrls (GET /api/urls)
NUrls == 2

\* number of HTTP requests in one execution of SpecAll (any route)
NAll == 2

\* number of HTTP requests in one execution of SpecLossy (redirects)
NLossy == 3

\* number of HTTP requests in one execution of SpecNoFail (redirects)
NNoFail == 3

\* the requests of the largest specification
Reqs == 1..(CHOOSE n \in {NReq, NShorten, NUrls, NAll, NLossy, NNoFail} :
                \A m \in {NReq, NShorten, NUrls, NAll, NLossy, NNoFail} : n >= m)

\* ------------------------------------------------------------ value spaces
\* values nanoid(6) can return (two of them, so that collisions happen)
Codes == {"aaaaaa", "bbbbbb"}

\* the path segment the redirect handler ignores
FAVICON == "favicon.ico"

\* values of req.params.shortCode
Params == Codes \cup {FAVICON}

\* user_id of an anonymous row, userId = null
NullUser == "null"

\* req.headers.authorization: absent, or a bearer token
NoHeader == ""
Authorizations == {NoHeader, "Bearer tA", "Bearer tB", "Bearer tX"}

\* the user the auth service resolves a credential to (null when unknown)
AuthUser(authorization) ==
    CASE authorization = "Bearer tA" -> "uA"
      [] authorization = "Bearer tB" -> "uB"
      [] OTHER -> NullUser

\* request bodies: originalUrl as a sequence of characters
\*   "http://a"   "ftp:/b"   "a b" (illegal character)   "//a" (no scheme)
\*   <<>> stands for a missing or empty originalUrl
UrlHttp == <<"h", "t", "t", "p", ":", "/", "/", "a">>
UrlFtp == <<"f", "t", "p", ":", "/", "b">>
UrlSpace == <<"a", " ", "b">>
UrlNoScheme == <<"/", "/", "a">>
UrlMissing == <<>>
Urls == {UrlHttp, UrlFtp, UrlSpace, UrlNoScheme, UrlMissing}

\* ---------------------------------------------------------- validUrl.isUri
Alpha == {"a", "b", "c", "d", "e", "f", "h", "p", "t"}
Digit == {"0", "1"}
Hex == Digit \cup {"a", "b", "c", "d", "e", "f"}
Punct == {":", "/", "?", "#", "[", "]", "@", "!", "$", "&", "'", "(", ")",
          "*", "+", ",", ";", "=", ".", "-", "_", "~", "%"}
LegalChars == Alpha \cup Digit \cup Punct

\* index of the first character of s that is in S, Len(s)+1 when none
FirstIdx(s, S) ==
    IF \E i \in 1..Len(s) : s[i] \in S
    THEN CHOOSE i \in 1..Len(s) : s[i] \in S /\ \A j \in 1..(i - 1) : s[j] \notin S
    ELSE Len(s) + 1

Tail2(s, k) == SubSeq(s, k, Len(s))

\* splitUri: the scheme, authority and path groups of
\* (?:([^:\/?#]+):)?(?:\/\/([^\/?#]*))?([^?#]*)(?:\?([^#]*))?(?:#(.*))?
splitUri(s) ==
    LET k == FirstIdx(s, {":", "/", "?", "#"})
        hasScheme == k <= Len(s) /\ k > 1 /\ s[k] = ":"
        scheme == IF hasScheme THEN SubSeq(s, 1, k - 1) ELSE <<>>
        rest == IF hasScheme THEN Tail2(s, k + 1) ELSE s
        hasAuth == Len(rest) >= 2 /\ rest[1] = "/" /\ rest[2] = "/"
        rest2 == IF hasAuth THEN Tail2(rest, 3) ELSE rest
        a == FirstIdx(rest2, {"/", "?", "#"})
        authority == IF hasAuth THEN SubSeq(rest2, 1, a - 1) ELSE <<>>
        rest3 == IF hasAuth THEN Tail2(rest2, a) ELSE rest
        p == FirstIdx(rest3, {"?", "#"})
    IN  [scheme |-> scheme, authority |-> authority,
         path |-> SubSeq(rest3, 1, p - 1)]

\* isUri(value) is truthy: value passes every check of valid-url's is_iri
isUri(value) ==
    LET n == Len(value)
        u == splitUri(value)
    IN  /\ n > 0
        /\ \A i \in 1..n : value[i] \in LegalChars
        /\ ~ \E i \in 1..n : value[i] = "%" /\ i + 1 <= n /\ value[i + 1] \notin Hex
        /\ ~ \E i \in 1..n : /\ value[i] = "%" /\ i + 1 <= n /\ value[i + 1] \in Hex
                             /\ (i + 1 = n \/ value[i + 2] \notin Hex)
        /\ Len(u.scheme) > 0
        /\ IF Len(u.authority) > 0
           THEN Len(u.path) = 0 \/ u.path[1] = "/"
           ELSE ~ (Len(u.path) >= 2 /\ u.path[1] = "/" /\ u.path[2] = "/")
        /\ u.scheme[1] \in Alpha
        /\ \A i \in 1..Len(u.scheme) : u.scheme[i] \in Alpha \cup Digit \cup {"+", "-", "."}

\* ------------------------------------------------------------------- state
VARIABLES
    urls,      \* the table 'urls': a set of rows
    now,       \* the store's clock, source of created_at
    route,     \* route[r]: "none" until request r arrives, then its handler
    pc,        \* pc[r]: the await (or detached promise) request r is at
    req,       \* req[r]: body, headers and params of request r
    loc,       \* loc[r]: the handler's locals shortCode, userId, data
    res,       \* res[r]: the response sent for request r
    events,    \* events[r]: the store calls issued ("getUser", "insert",
               \*   "select", "rpc", "update"), the failure each reported
               \*   ("unique", "error", "throw"), a rejection no handler caught
               \*   ("unhandledRejection") and the response ("respond"),
               \*   in the order they happened
    credited   \* credited[c]: accounting tasks of code c that were not dropped

vars == <<urls, now, route, pc, req, loc, res, events, credited>>

\* a row of the table
Row(code, url, user, clicks, at) ==
    [short_code |-> code, original_url |-> url, user_id |-> user,
     clicks |-> clicks, created_at |-> at]

\* .eq('short_code', code)
RowsOf(code) == {row \in urls : row.short_code = code}

NoReq == [originalUrl |-> <<>>, authorization |-> NoHeader, shortCode |-> ""]
NoData == [original_url |-> <<>>, clicks |-> 0]
NoLoc == [shortCode |-> "", userId |-> NullUser, data |-> NoData]
NoRes == [status |-> 0, page |-> "", target |-> <<>>, shortCode |-> "", list |-> <<>>]

\* res.status(s).json({ error }) or res.status(404).end()
ResStatus(s) == [NoRes EXCEPT !.status = s]
\* res.json({ shortCode, shortUrl, originalUrl, message })
ResShortened(code, url) == [NoRes EXCEPT !.status = 200, !.shortCode = code, !.target = url]
\* res.redirect(data.original_url)
ResRedirect(url) == [NoRes EXCEPT !.status = 302, !.target = url]
\* res.redirect('/?error=not_found'), res.redirect('/?error=server_error')
ResErrorPage(e) == [NoRes EXCEPT !.status = 302, !.page = e]
\* res.json(mapped), res.json([]), res.json({ ...data, shortUrl }): the rows
ResRows(rows) == [NoRes EXCEPT !.status = 200, !.list = rows]

\* the store before any request: empty, or one anonymous row never clicked
InitialRow == Row("aaaaaa", UrlHttp, NullUser, 0, 0)

Init ==
    /\ urls \in {{}, {InitialRow}}
    /\ now = 1
    /\ route = [r \in Reqs |-> "none"]
    /\ pc = [r \in Reqs |-> "idle"]
    /\ req = [r \in Reqs |-> NoReq]
    /\ loc = [r \in Reqs |-> NoLoc]
    /\ res = [r \in Reqs |-> NoRes]
    /\ events = [r \in Reqs |-> <<>>]
    /\ credited = [c \in Codes |-> 0]

\* the handler (and every promise it started) has finished: the response
\* and the log of its calls remain, its locals are gone
Finished(r) ==
    /\ pc' = [pc EXCEPT ![r] = "done"]
    /\ loc' = [loc EXCEPT ![r] = NoLoc]

\* a promise that is neither awaited inside a try block nor given a
\* rejection handler rejects: nothing runs for it, the rejection is unhandled
Rejected(r) ==
    /\ events' = [events EXCEPT ![r] = @ \o <<"throw", "unhandledRejection">>]
    /\ Finished(r)

\* --------------------------------------------------- POST /api/shorten
\* ShortenInvalid without the return of line 89: 400 is sent and the handler
\* goes on to generate a code and insert
ShortenInvalid_NoReturn(r) ==
    /\ res' = [res EXCEPT ![r] = ResStatus(400)]
    /\ events' = [events EXCEPT ![r] = <<"respond", "insert">>]
    /\ pc' = [pc EXCEPT ![r] = "insert"]
    /\ \E code \in Codes : loc' = [loc EXCEPT ![r].shortCode = code]

\* lines 88-90: the body is not a URI: 400, and the handler returns
ShortenInvalid(r) ==
    /\ res' = [res EXCEPT ![r] = ResStatus(400)]
    /\ events' = [events EXCEPT ![r] = <<"respond">>]
    /\ Finished(r)

\* lines 84-105: the request arrives; validation, code generation, and the
\* first store call (auth.getUser with a credential, the insert without)
Shorten(r, bodies, headers) ==
    /\ route[r] = "none"
    /\ \E originalUrl \in bodies, authorization \in headers :
         /\ route' = [route EXCEPT ![r] = "shorten"]
         /\ req' = [req EXCEPT ![r] = [NoReq EXCEPT !.originalUrl = originalUrl,
                                                   !.authorization = authorization]]
         /\ IF ~ isUri(originalUrl)
            THEN ShortenInvalid(r)
            ELSE /\ \E code \in Codes : loc' = [loc EXCEPT ![r].shortCode = code]
                 /\ res' = res
                 /\ IF authorization # NoHeader
                    THEN /\ pc' = [pc EXCEPT ![r] = "getUser"]
                         /\ events' = [events EXCEPT ![r] = <<"getUser">>]
                    ELSE /\ pc' = [pc EXCEPT ![r] = "insert"]
                         /\ events' = [events EXCEPT ![r] = <<"insert">>]
    /\ UNCHANGED <<urls, now, credited>>

\* the catch block of the shorten handler, lines 124-127
ShortenCatch(r, err) ==
    /\ res' = [res EXCEPT ![r] = ResStatus(500)]
    /\ events' = [events EXCEPT ![r] = @ \o <<err, "respond">>]
    /\ Finished(r)

\* lines 101-105: sb.auth.getUser() settles (the user of the credential,
\* no user, or a rejection); the insert is issued
ShortenGetUser(r) ==
    /\ route[r] = "shorten" /\ pc[r] = "getUser"
    /\ \E outcome \in {"ok", "error", "throw"} :
         IF outcome = "throw"
         THEN ShortenCatch(r, "throw")
         ELSE /\ loc' = [loc EXCEPT ![r].userId =
                            IF outcome = "ok" THEN AuthUser(req[r].authorization)
                                              ELSE NullUser]
              /\ pc' = [pc EXCEPT ![r] = "insert"]
              /\ events' = [events EXCEPT ![r] =
                               IF outcome = "ok" THEN Append(@, "insert")
                                                 ELSE @ \o <<"error", "insert">>]
              /\ res' = res
    /\ UNCHANGED <<urls, now, route, req, credited>>

\* InsertedRow storing the wrong string as original_url
InsertedRow_WrongUrl(r) ==
    [original_url |-> UrlHttp,
     short_code |-> loc[r].shortCode,
     user_id |-> loc[r].userId]

\* InsertedRow taking the owner from somewhere else than auth.getUser
InsertedRow_ForgedOwner(r) ==
    [original_url |-> req[r].originalUrl,
     short_code |-> loc[r].shortCode,
     user_id |-> "uA"]

\* lines 107-111: the object the handler inserts
InsertedRow(r) ==
    [original_url |-> req[r].originalUrl,
     short_code |-> loc[r].shortCode,
     user_id |-> loc[r].userId]

\* the store's insert: the row is added with clicks 0 and created_at now,
\* unless a row with that short_code exists (unique violation)
insert(new) ==
    IF RowsOf(new.short_code) # {}
    THEN UNCHANGED <<urls, now>>
    ELSE /\ urls' = urls \cup {Row(new.short_code, new.original_url, new.user_id, 0, now)}
         /\ now' = now + 1

\* lines 105-127: the insert settles: the row is stored and the answer is
\* 200 with the code, or the insert failed (unique violation; store failure,
\* returned or thrown) and the catch block answers 500
ShortenInsert(r) ==
    /\ route[r] = "shorten" /\ pc[r] = "insert"
    /\ \E outcome \in {"ok", "error"} :
         IF outcome = "ok"
         THEN /\ insert(InsertedRow(r))
              /\ IF RowsOf(InsertedRow(r).short_code) # {}
                 THEN ShortenCatch(r, "unique")
                 ELSE /\ res' = [res EXCEPT ![r] =
                                    ResShortened(loc[r].shortCode, req[r].originalUrl)]
                      /\ events' = [events EXCEPT ![r] = Append(@, "respond")]
                      /\ Finished(r)
         ELSE /\ ShortenCatch(r, "error")
              /\ UNCHANGED <<urls, now>>
    /\ UNCHANGED <<route, req, credited>>

\* ------------------------------------------------------- GET /:shortCode
\* lines 200-212: the request arrives; favicon.ico is answered 404, any
\* other code starts the lookup
Redirect(r) ==
    /\ route[r] = "none"
    /\ \E shortCode \in Params :
         /\ route' = [route EXCEPT ![r] = "redirect"]
         /\ req' = [req EXCEPT ![r] = [NoReq EXCEPT !.shortCode = shortCode]]
         /\ IF shortCode = FAVICON
            THEN /\ res' = [res EXCEPT ![r] = ResStatus(404)]
                 /\ events' = [events EXCEPT ![r] = <<"respond">>]
                 /\ Finished(r)
            ELSE /\ pc' = [pc EXCEPT ![r] = "select"]
                 /\ events' = [events EXCEPT ![r] = <<"select">>]
                 /\ UNCHANGED <<res, loc>>
    /\ UNCHANGED <<urls, now, credited>>

\* RedirectFound awaiting the increment before it responds
RedirectFound_AwaitRpc(r, data) ==
    /\ loc' = [loc EXCEPT ![r].data = data]
    /\ res' = res
    /\ events' = [events EXCEPT ![r] = Append(@, "rpc")]
    /\ pc' = [pc EXCEPT ![r] = "rpc"]

\* RedirectFound without line 220: it redirects and never starts the
\* increment
RedirectFound_NoRpc(r, data) ==
    /\ res' = [res EXCEPT ![r] = ResRedirect(data.original_url)]
    /\ events' = [events EXCEPT ![r] = Append(@, "respond")]
    /\ Finished(r)

\* lines 214-220 when the lookup returned a row: redirect at once, then
\* start the increment without awaiting it
RedirectFound(r, data) ==
    /\ loc' = [loc EXCEPT ![r].data = data]
    /\ res' = [res EXCEPT ![r] = ResRedirect(data.original_url)]
    /\ events' = [events EXCEPT ![r] = @ \o <<"respond", "rpc">>]
    /\ pc' = [pc EXCEPT ![r] = "rpc"]

\* RedirectMissing without the return of line 214: the error page is sent
\* and the increment is started all the same
RedirectMissing_Counts(r, outcome) ==
    /\ res' = [res EXCEPT ![r] =
                  ResErrorPage(IF outcome = "throw" THEN "server_error"
                                                    ELSE "not_found")]
    /\ events' = [events EXCEPT ![r] =
                     IF outcome = "ok" THEN @ \o <<"respond", "rpc">>
                                       ELSE @ \o <<outcome, "respond", "rpc">>]
    /\ pc' = [pc EXCEPT ![r] = "rpc"]
    /\ loc' = loc

\* RedirectMissing failing open: a failed lookup redirects to a default
\* target instead of the error page
RedirectMissing_FailOpen(r, outcome) ==
    /\ res' = [res EXCEPT ![r] =
                  IF outcome = "ok" THEN ResErrorPage("not_found")
                                    ELSE ResRedirect(UrlHttp)]
    /\ events' = [events EXCEPT ![r] =
                     IF outcome = "ok" THEN Append(@, "respond")
                                       ELSE @ \o <<outcome, "respond">>]
    /\ Finished(r)

\* line 214 and lines 232-235: the lookup gave no row (no match, an error
\* result, or a rejection): the error page, and the handler returns
RedirectMissing(r, outcome) ==
    /\ res' = [res EXCEPT ![r] =
                  ResErrorPage(IF outcome = "throw" THEN "server_error"
                                                    ELSE "not_found")]
    /\ events' = [events EXCEPT ![r] =
                     IF outcome = "ok" THEN Append(@, "respond")
                                       ELSE @ \o <<outcome, "respond">>]
    /\ Finished(r)

\* lines 208-235: the lookup settles.  .single() yields the row when exactly
\* one matches and an error otherwise; a store failure is an error result
\* or a rejection, which the catch block answers
RedirectLookup(r) ==
    /\ route[r] = "redirect" /\ pc[r] = "select"
    /\ \E outcome \in {"ok", "error", "throw"} :
         LET rows == RowsOf(req[r].shortCode) IN
         IF outcome = "ok" /\ Cardinality(rows) = 1
         THEN \E row \in rows :
                  RedirectFound(r, [original_url |-> row.original_url,
                                    clicks |-> row.clicks])
         ELSE RedirectMissing(r, outcome)
    /\ UNCHANGED <<urls, now, route, req, credited>>

\* the store function increment_clicks(url_short_code): clicks = clicks + 1
increment_clicks(url_short_code) ==
    urls' = {IF row.short_code = url_short_code
             THEN [row EXCEPT !.clicks = @ + 1] ELSE row : row \in urls}

\* .update({ clicks }) without .eq('short_code', shortCode)
update_NoFilter(clicks, shortCode) ==
    urls' = {[row EXCEPT !.clicks = clicks] : row \in urls}

\* .update({ clicks }).eq('short_code', shortCode)
update(clicks, shortCode) ==
    urls' = {IF row.short_code = shortCode
             THEN [row EXCEPT !.clicks = clicks] ELSE row : row \in urls}

\* the callback of the rpc issuing the direct update whatever the result
RpcThen_Always(r, error) ==
    /\ pc' = [pc EXCEPT ![r] = "update"]
    /\ events' = [events EXCEPT ![r] =
                     IF error THEN @ \o <<"error", "update">> ELSE Append(@, "update")]
    /\ loc' = loc

\* the callback of the rpc calling the rpc again when it failed
RpcThen_Requeue(r, error) ==
    IF error /\ Len(events[r]) < 8
    THEN /\ events' = [events EXCEPT ![r] = @ \o <<"error", "rpc">>]
         /\ UNCHANGED <<pc, loc>>
    ELSE /\ Finished(r)
         /\ events' = events

\* lines 221-230: the callback of the rpc: on an error result the direct
\* update of data.clicks + 1 is issued, otherwise nothing more happens
RpcThen(r, error) ==
    IF error
    THEN /\ pc' = [pc EXCEPT ![r] = "update"]
         /\ events' = [events EXCEPT ![r] = @ \o <<"error", "update">>]
         /\ loc' = loc
    ELSE /\ Finished(r)
         /\ events' = events

\* lines 220-221: the rpc settles with one of the given outcomes: applied
\* ("ok"); an error result with nothing applied ("error": the function is
\* missing, the store failed); a rejection, which skips the callback
\* ("reject"); applied, but the reply was lost and an error result is
\* reported ("lost")
IncrementClicksOf(r, outcomes) ==
    /\ route[r] = "redirect" /\ pc[r] = "rpc"
    /\ \E outcome \in outcomes :
         CASE outcome = "ok" ->
                 /\ increment_clicks(req[r].shortCode)
                 /\ credited' = [credited EXCEPT ![req[r].shortCode] = @ + 1]
                 /\ RpcThen(r, FALSE)
           [] outcome = "error" ->
                 /\ RpcThen(r, TRUE)
                 /\ UNCHANGED <<urls, credited>>
           [] outcome = "reject" ->
                 /\ Rejected(r)
                 /\ UNCHANGED <<urls, credited>>
           [] outcome = "lost" ->
                 /\ increment_clicks(req[r].shortCode)
                 /\ credited' = credited
                 /\ RpcThen(r, TRUE)
    /\ UNCHANGED <<now, route, req, res>>

\* the rpc against a store that reports its failures precisely
IncrementClicks(r) == IncrementClicksOf(r, {"ok", "error", "reject"})

\* UpdateThen re-issuing the update when it failed
UpdateThen_Retry(r, error) ==
    IF error /\ Len(events[r]) < 8
    THEN /\ events' = [events EXCEPT ![r] = @ \o <<"error", "update">>]
         /\ UNCHANGED <<pc, loc>>
    ELSE /\ events' = [events EXCEPT ![r] = IF error THEN Append(@, "error") ELSE @]
         /\ Finished(r)

\* line 228: the callback of the update ignores its result; the task ends
UpdateThen(r, error) ==
    /\ events' = [events EXCEPT ![r] = IF error THEN Append(@, "error") ELSE @]
    /\ Finished(r)

\* the direct update writing the clicks it reads afresh plus one
FallbackUpdate_FreshRead(r) ==
    /\ route[r] = "redirect" /\ pc[r] = "update"
    /\ \E outcome \in {"ok", "error", "reject"} :
         CASE outcome = "ok" ->
                 /\ increment_clicks(req[r].shortCode)
                 /\ credited' = [credited EXCEPT ![req[r].shortCode] = @ + 1]
                 /\ UpdateThen(r, FALSE)
           [] outcome = "error" ->
                 /\ UNCHANGED <<urls, credited>>
                 /\ UpdateThen(r, TRUE)
           [] outcome = "reject" ->
                 /\ UNCHANGED <<urls, credited>>
                 /\ Rejected(r)
    /\ UNCHANGED <<now, route, req, res>>

\* lines 224-228: the direct update settles: applied; an error result; or
\* a rejection, which skips the callback
FallbackUpdate(r) ==
    /\ route[r] = "redirect" /\ pc[r] = "update"
    /\ \E outcome \in {"ok", "error", "reject"} :
         CASE outcome = "ok" ->
                 /\ update(loc[r].data.clicks + 1, req[r].shortCode)
                 /\ credited' = [credited EXCEPT ![req[r].shortCode] = @ + 1]
                 /\ UpdateThen(r, FALSE)
           [] outcome = "error" ->
                 /\ UNCHANGED <<urls, credited>>
                 /\ UpdateThen(r, TRUE)
           [] outcome = "reject" ->
                 /\ UNCHANGED <<urls, credited>>
                 /\ Rejected(r)
    /\ UNCHANGED <<now, route, req, res>>

\* --------------------------------------------------------- GET /api/urls
\* .limit(50)
LIMIT == 50

\* the first n of the given rows in the order of .order('created_at',
\* { ascending: false })
RECURSIVE newestFirst(_, _)
newestFirst(rows, n) ==
    IF rows = {} \/ n = 0
    THEN <<>>
    ELSE LET top == CHOOSE x \in rows : \A y \in rows : x.created_at >= y.created_at
         IN  <<top>> \o newestFirst(rows \ {top}, n - 1)

\* the query without .eq('user_id', user.id)
listByOwner_NoFilter(user_id) ==
    newestFirst(urls, LIMIT)

\* lines 173-178: .select('*').eq('user_id', user.id)
\*                .order('created_at', { ascending: false }).limit(50)
listByOwner(user_id) ==
    newestFirst({row \in urls : row.user_id = user_id}, LIMIT)

\* lines 160-164: the request arrives and auth.getUser() is awaited
Urls_(r, headers) ==
    /\ route[r] = "none"
    /\ \E authorization \in headers :
         req' = [req EXCEPT ![r] = [NoReq EXCEPT !.authorization = authorization]]
    /\ route' = [route EXCEPT ![r] = "urls"]
    /\ pc' = [pc EXCEPT ![r] = "getUser"]
    /\ events' = [events EXCEPT ![r] = <<"getUser">>]
    /\ UNCHANGED <<urls, now, loc, res, credited>>

\* lines 164-178: auth.getUser() settles.  Without a user (or with an auth
\* error) the answer is the empty list; with a user the select is issued.
\* The await is outside the try block: a rejection is not caught
UrlsGetUser(r) ==
    /\ route[r] = "urls" /\ pc[r] = "getUser"
    /\ \E outcome \in {"ok", "error", "throw"} :
         LET user == IF outcome = "ok" THEN AuthUser(req[r].authorization)
                                       ELSE NullUser
         IN  CASE outcome = "throw" ->
                     Rejected(r) /\ res' = res
               [] outcome # "throw" /\ user = NullUser ->
                     /\ res' = [res EXCEPT ![r] = ResRows(<<>>)]
                     /\ events' = [events EXCEPT ![r] =
                                      IF outcome = "ok" THEN Append(@, "respond")
                                                        ELSE @ \o <<"error", "respond">>]
                     /\ Finished(r)
               [] outcome # "throw" /\ user # NullUser ->
                     /\ loc' = [loc EXCEPT ![r].userId = user]
                     /\ pc' = [pc EXCEPT ![r] = "select"]
                     /\ events' = [events EXCEPT ![r] = Append(@, "select")]
                     /\ res' = res
    /\ UNCHANGED <<urls, now, route, req, credited>>

\* lines 173-196: the select settles: the rows are sent, or the catch block
\* answers 500
UrlsSelect(r) ==
    /\ route[r] = "urls" /\ pc[r] = "select"
    /\ \E outcome \in {"ok", "error", "throw"} :
         /\ res' = [res EXCEPT ![r] =
                       IF outcome = "ok" THEN ResRows(listByOwner(loc[r].userId))
                                         ELSE ResStatus(500)]
         /\ events' = [events EXCEPT ![r] =
                          IF outcome = "ok" THEN Append(@, "respond")
                                            ELSE @ \o <<outcome, "respond">>]
    /\ Finished(r)
    /\ UNCHANGED <<urls, now, route, req, credited>>

\* ------------------------------------------------ GET /api/stats/:shortCode
\* lines 131-141: the request arrives and the select is awaited
Stats(r) ==
    /\ route[r] = "none"
    /\ \E shortCode \in Codes :
         req' = [req EXCEPT ![r] = [NoReq EXCEPT !.shortCode = shortCode]]
    /\ route' = [route EXCEPT ![r] = "stats"]
    /\ pc' = [pc EXCEPT ![r] = "select"]
    /\ events' = [events EXCEPT ![r] = <<"select">>]
    /\ UNCHANGED <<urls, now, loc, res, credited>>

\* lines 137-156: the select settles: the row is sent; without a row or
\* with an error result the answer is 404; the catch block answers 500
StatsSelect(r) ==
    /\ route[r] = "stats" /\ pc[r] = "select"
    /\ \E outcome \in {"ok", "error", "throw"} :
         LET rows == RowsOf(req[r].shortCode) IN
         /\ IF outcome = "ok" /\ Cardinality(rows) = 1
            THEN \E row \in rows : res' = [res EXCEPT ![r] = ResRows(<<row>>)]
            ELSE res' = [res EXCEPT ![r] =
                           ResStatus(IF outcome = "throw" THEN 500 ELSE 404)]
         /\ events' = [events EXCEPT ![r] =
                          IF outcome = "ok" THEN Append(@, "respond")
                                            ELSE @ \o <<outcome, "respond">>]
    /\ Finished(r)
    /\ UNCHANGED <<urls, now, route, req, credited>>

\* ---------------------------------------------------------- specifications
\* bodies and headers of the shorten requests of Spec: anonymous requests
AnonymousBodies == {UrlHttp, UrlFtp, UrlSpace}

\* shorten and redirect requests, in any interleaving
Next ==
    \E r \in 1..NReq :
        \/ Shorten(r, AnonymousBodies, {NoHeader})
        \/ ShortenInsert(r)
        \/ Redirect(r)
        \/ RedirectLookup(r)
        \/ IncrementClicks(r)
        \/ FallbackUpdate(r)

Spec == Init /\ [][Next]_vars

\* shorten requests only, with every body and credential
NextShorten ==
    \E r \in 1..NShorten :
        \/ Shorten(r, Urls, Authorizations)
        \/ ShortenGetUser(r)
        \/ ShortenInsert(r)

SpecShorten == Init /\ [][NextShorten]_vars

\* ------------------------------------------------------------ properties
\* how often e occurs in the log s, and whether it does
Count(s, e) == Cardinality({i \in DOMAIN s : s[i] = e})
Has(s, e) == \E i \in DOMAIN s : s[i] = e

AllSettled == \A r \in Reqs : pc[r] \in {"idle", "done"}

\* C1: the clicks of a row are never negative and no step lowers them.
ClicksNeverDecrease ==
    [][\A row \in urls : \A next \in urls' :
          next.short_code = row.short_code
              => row.clicks >= 0 /\ next.clicks >= row.clicks]_vars

\* C2: once every accounting task has finished, the clicks of a row equal
\* the number of redirects of its code whose increment or fallback update
\* succeeded (every row starts at 0 clicks): no update is lost.
NoLostUpdate ==
    AllSettled => \A row \in urls : row.clicks = credited[row.short_code]

\* C3: no two rows share a short_code, and, every row having come from a
\* shorten call, a shorten call whose insert hit a unique violation has
\* regenerated a code and inserted again.
UniqueOrRegenerated ==
    /\ \A a \in urls : \A b \in urls : a.short_code = b.short_code => a = b
    /\ InitialRow \notin urls =>
           \A r \in Reqs : Has(events[r], "unique") => Count(events[r], "insert") >= 2

\* the maximum number of insert attempts of one shorten call
MaxAttempts == 5

\* C4: a unique violation is answered 500 only after MaxAttempts inserts.
UniqueViolationRetried ==
    \A r \in Reqs :
        (Has(events[r], "unique") /\ res[r].status = 500)
            => Count(events[r], "insert") = MaxAttempts

\* bodies that are not well-formed absolute URIs
Malformed == {UrlSpace, UrlNoScheme, UrlMissing}

RoundTrip ==
    \A s \in Reqs :
        (route[s] = "shorten" /\ res[s].status = 200)
            => /\ \E row \in urls : /\ row.short_code = res[s].shortCode
                                    /\ row.original_url = req[s].originalUrl
               /\ \A r \in Reqs :
                      (/\ route[r] = "redirect"
                       /\ req[r].shortCode = res[s].shortCode
                       /\ res[r].status = 302 /\ res[r].page = "")
                          => res[r].target = req[s].originalUrl

\* a redirect that looked the code up after an accounting write to its row
RoundTripSeen ==
    \E s \in Reqs, r \in Reqs :
        /\ route[s] = "shorten" /\ res[s].status = 200
        /\ req[s].originalUrl = UrlFtp
        /\ route[r] = "redirect" /\ req[r].shortCode = res[s].shortCode
        /\ pc[r] = "rpc" /\ loc[r].data.clicks >= 1
        /\ res[r].target = UrlFtp

\* C7: in a redirect that found a row the response precedes the rpc and the
\* update, and while either is in flight the response has been sent.
RespondBeforeAccounting ==
    \A r \in Reqs :
        route[r] = "redirect"
            => /\ \A i \in DOMAIN events[r] :
                      events[r][i] \in {"rpc", "update"}
                          => \E j \in 1..(i - 1) : events[r][j] = "respond"
               /\ pc[r] \in {"rpc", "update"}
                      => res[r] = ResRedirect(loc[r].data.original_url)

AccountingInFlight ==
    \E r \in Reqs : pc[r] = "rpc" /\ res[r].status = 302 /\ res[r].target # <<>>

\* C8: when the rpc fails and the update fails too, neither step changes the
\* table, the redirect to the target stays the response, and the task ends
\* after that one rpc and one update.
DoubleFailureDropsIncrement ==
    [][\A r \in Reqs :
          route[r] = "redirect"
              => /\ (pc[r] = "rpc" /\ pc'[r] = "update") => urls' = urls
                 /\ (pc[r] = "update" /\ events'[r] # events[r])
                        => /\ events'[r] \in
                                  {Append(events[r], "error"),
                                   events[r] \o <<"throw", "unhandledRejection">>}
                           /\ urls' = urls
                           /\ pc'[r] = "done"
                           /\ res'[r] = res[r]
                           /\ res[r].status = 302 /\ res[r].target # <<>>
                           /\ Count(events'[r], "rpc") = 1
                           /\ Count(events'[r], "update") = 1]_vars

DoubleFailureSeen ==
    \E r \in Reqs :
        /\ pc[r] = "done"
        /\ events[r] = <<"select", "respond", "rpc", "error", "update", "error">>
        /\ res[r].status = 302 /\ res[r].target # <<>>
        /\ \A row \in RowsOf(req[r].shortCode) : row.clicks = 0

\* C9 as stated: a finished redirect of a code without a row was answered
\* with the redirect to /?error=not_found and started no accounting.
UnknownCodeNotFound ==
    \A r \in Reqs :
        (route[r] = "redirect" /\ pc[r] = "done" /\ RowsOf(req[r].shortCode) = {})
            => /\ res[r] = ResErrorPage("not_found")
               /\ ~ Has(events[r], "rpc") /\ ~ Has(events[r], "update")

\* C9 amended: favicon.ico is answered 404 without a lookup; the lookup of
\* any other code without a row ends the request with the redirect to
\* /?error=not_found, or to /?error=server_error when the lookup threw; in
\* both cases no accounting is started and the table is unchanged.
UnknownCodeErrorPage ==
    [][\A r \in Reqs :
          /\ (route[r] = "none" /\ route'[r] = "redirect"
                  /\ req'[r].shortCode = FAVICON)
                 => /\ res'[r] = ResStatus(404)
                    /\ pc'[r] = "done"
                    /\ events'[r] = <<"respond">>
                    /\ urls' = urls
          /\ (route[r] = "redirect" /\ pc[r] = "select" /\ pc'[r] # "select"
                  /\ RowsOf(req[r].shortCode) = {})
                 => /\ pc'[r] = "done"
                    /\ urls' = urls
                    /\ \/ /\ res'[r] = ResErrorPage("not_found")
                          /\ events'[r] \in {<<"select", "respond">>,
                                             <<"select", "error", "respond">>}
                       \/ /\ res'[r] = ResErrorPage("server_error")
                          /\ events'[r] = <<"select", "throw", "respond">>]_vars

UnknownCodeSeen ==
    \E r \in Reqs :
        /\ route[r] = "redirect" /\ req[r].shortCode \in Codes
        /\ RowsOf(req[r].shortCode) = {}
        /\ pc[r] = "done" /\ res[r] = ResErrorPage("not_found")

\* the lookup of request r reported an error result or threw
LookupFailed(r) ==
    Len(events[r]) >= 2 /\ events[r][1] = "select" /\ events[r][2] \in {"error", "throw"}

\* C10: a redirect whose lookup failed is answered with the error page and
\* issues no accounting call; a redirect to a target answers a lookup that
\* returned the row of that code with that target; accounting calls are
\* issued only by redirects to a target.
FailClosed ==
    \A r \in Reqs :
        route[r] = "redirect"
            => /\ LookupFailed(r)
                      => /\ pc[r] = "done"
                         /\ res[r] \in {ResErrorPage("not_found"),
                                        ResErrorPage("server_error")}
                         /\ ~ Has(events[r], "rpc") /\ ~ Has(events[r], "update")
               /\ res[r].target # <<>>
                      => /\ Len(events[r]) >= 2
                         /\ events[r][1] = "select" /\ events[r][2] = "respond"
                         /\ \E row \in urls : /\ row.short_code = req[r].shortCode
                                              /\ row.original_url = res[r].target
               /\ (Has(events[r], "rpc") \/ Has(events[r], "update"))
                      => res[r].target # <<>>

\* the lookup of a code whose row existed all along failed
LookupFailureSeen ==
    \E r \in Reqs :
        /\ route[r] = "redirect" /\ LookupFailed(r)
        /\ InitialRow \in urls /\ req[r].shortCode = InitialRow.short_code
        /\ res[r].page # ""

\* C11: a redirect that found a row gets exactly one response, the redirect
\* to the target, whatever the rpc and the update do, and no failure of
\* either is left uncaught.
AccountingUnobservable ==
    \A r \in Reqs :
        (route[r] = "redirect" /\ Has(events[r], "rpc"))
            => /\ Count(events[r], "respond") = 1
               /\ res[r].status = 302 /\ res[r].target # <<>>
               /\ ~ Has(events[r], "unhandledRejection")

\* a store call of request r reported an error result or threw
StoreCallFailed(r) ==
    Has(events[r], "error") \/ Has(events[r], "throw") \/ Has(events[r], "unique")

\* C12: a shorten request answered 200 has its row in the table under the
\* returned code, and a finished shorten request one of whose store calls
\* (auth.getUser or the insert) failed was answered 500.
ShortenAnswersStoreResult ==
    \A r \in Reqs :
        route[r] = "shorten"
            => /\ res[r].status = 200
                   => \E row \in urls : /\ row.short_code = res[r].shortCode
                                        /\ row.original_url = req[r].originalUrl
               /\ (pc[r] = "done" /\ StoreCallFailed(r)) => res[r].status = 500

\* -------------------------------------------------- listing specification
\* largest number of rows one owner holds before the requests of SpecUrls
MaxOwned == 52

\* a table in which uA owns n rows (created at 2, 4, .., 2n), uB one row
\* (created at 3) and one row is anonymous (created at 5)
Table(n) ==
    {Row(ToString(i), UrlHttp, "uA", 0, 2 * i) : i \in 1..n}
        \cup {Row("bbbbbb", UrlFtp, "uB", 0, 3), Row("aaaaaa", UrlHttp, NullUser, 0, 5)}

InitUrls ==
    /\ \E n \in (0..2) \cup ((MaxOwned - 3)..MaxOwned) : urls = Table(n)
    /\ now = 2 * MaxOwned + 2
    /\ route = [r \in Reqs |-> "none"]
    /\ pc = [r \in Reqs |-> "idle"]
    /\ req = [r \in Reqs |-> NoReq]
    /\ loc = [r \in Reqs |-> NoLoc]
    /\ res = [r \in Reqs |-> NoRes]
    /\ events = [r \in Reqs |-> <<>>]
    /\ credited = [c \in Codes |-> 0]

NextUrls ==
    \E r \in 1..NUrls :
        \/ Urls_(r, Authorizations)
        \/ UrlsGetUser(r)
        \/ UrlsSelect(r)

SpecUrls == InitUrls /\ [][NextUrls]_vars

\* the user request r is authenticated as: auth.getUser resolved its
\* credential without an error
Authenticated(r) ==
    IF Has(events[r], "error") \/ Has(events[r], "throw")
    THEN NullUser
    ELSE AuthUser(req[r].authorization)

\* C13: a listing answered 200 is empty when the request is not
\* authenticated; otherwise it holds only rows of the table owned by the
\* authenticated user, newest first, at most 50 of them, and every row of
\* that owner it leaves out is no newer than the 50 rows it holds.
ListsOwnNewest ==
    \A r \in Reqs :
        (route[r] = "urls" /\ res[r].status = 200)
            => LET rows == res[r].list
                   o == AuthUser(req[r].authorization)
               IN  /\ Authenticated(r) = NullUser => rows = <<>>
                   /\ Len(rows) <= 50
                   /\ \A i \in DOMAIN rows :
                          /\ rows[i] \in urls
                          /\ rows[i].user_id = o /\ o # NullUser
                          /\ \A j \in DOMAIN rows :
                                 i < j => /\ rows[i].created_at >= rows[j].created_at
                                          /\ rows[i] # rows[j]
                   /\ Authenticated(r) # NullUser
                          => \A row \in urls :
                                 row.user_id = o
                                     => \/ \E i \in DOMAIN rows : rows[i] = row
                                        \/ /\ Len(rows) = 50
                                           /\ \A i \in DOMAIN rows :
                                                  rows[i].created_at >= row.created_at

\* a listing of 50 rows for an owner of more than 50
ListCapped ==
    \E r \in Reqs :
        /\ route[r] = "urls" /\ res[r].status = 200
        /\ Len(res[r].list) = 50
        /\ Cardinality({row \in urls : row.user_id = AuthUser(req[r].authorization)}) > 50

\* the rows after the clicks of the rows of a code are set
WithClicks(shortCode, clicks) ==
    {IF row.short_code = shortCode THEN [row EXCEPT !.clicks = clicks] ELSE row :
        row \in urls}

\* the rows after the clicks of the rows of a code are increased by one
Incremented(shortCode) ==
    {IF row.short_code = shortCode THEN [row EXCEPT !.clicks = @ + 1] ELSE row :
        row \in urls}

\* the step appends an error result to the events of request r
ReportsError(r) ==
    /\ Len(events'[r]) > Len(events[r])
    /\ events'[r][Len(events[r]) + 1] = "error"

\* C14: the lookup of a redirect keeps the clicks it read; the fallback
\* update is issued in exactly the steps in which the rpc of that redirect
\* reports an error, and only there; when it is applied it sets the rows of
\* the request's code to the clicks read by the lookup plus one and leaves
\* every other row alone; after an rpc without an error result, and after
\* the update, the redirect writes nothing more.
FallbackExact ==
    [][\A r \in Reqs :
         route[r] = "redirect" =>
           /\ (pc[r] = "select" /\ pc'[r] = "rpc")
                => \E row \in urls : /\ row.short_code = req[r].shortCode
                                     /\ loc'[r].data.clicks = row.clicks
           /\ pc[r] = "rpc"
                => /\ ReportsError(r) <=> pc'[r] = "update"
                   /\ pc'[r] = "update"
                        => /\ events'[r] = events[r] \o <<"error", "update">>
                           /\ loc'[r] = loc[r]
                   /\ (pc'[r] = "done" /\ ~ Has(events'[r], "throw"))
                        => urls' = Incremented(req[r].shortCode)
                   /\ (pc'[r] = "done" /\ Has(events'[r], "throw")) => urls' = urls
           /\ pc'[r] = "update" => pc[r] \in {"rpc", "update"}
           /\ pc[r] = "update"
                => /\ loc'[r] = loc[r] \/ pc'[r] = "done"
                   /\ pc'[r] \in {"update", "done"}
                   /\ (pc'[r] = "done" /\ events'[r] = events[r])
                        => urls' = WithClicks(req[r].shortCode, loc[r].data.clicks + 1)
                   /\ (pc'[r] = "done" /\ events'[r] # events[r]) => urls' = urls
           /\ pc[r] = "done" => /\ pc'[r] = "done"
                                /\ events'[r] = events[r]]_vars

\* a redirect whose rpc reported an error and whose update was applied on
\* top of another redirect's increment: the stale value was written
FallbackWritten ==
    \E r \in Reqs :
        /\ route[r] = "redirect" /\ pc[r] = "done"
        /\ events[r] = <<"select", "respond", "rpc", "error", "update">>
        /\ \E row \in urls : /\ row.short_code = req[r].shortCode
                             /\ row.clicks < credited[row.short_code]

\* the accounting steps request r still has to take
Remaining(r) ==
    CASE pc[r] = "rpc" -> 2
      [] pc[r] = "update" -> 1
      [] OTHER -> 0

\* the accounting store calls issued so far
AccountingCalls ==
    {c \in Reqs \X {"rpc", "update"} : Has(events[c[1]], c[2])}

\* the redirects answered with the target of their code
Resolutions ==
    {r \in Reqs : route[r] = "redirect" /\ res[r].target # <<>>}

\* C15: a redirect calls the rpc at most once and the update at most once;
\* every step of its accounting task brings the task nearer to its end (two
\* steps at most), whatever the result of the call; a finished task does
\* nothing more; the accounting store calls are at most twice the redirects
\* answered with a target.
AccountingBounded ==
    [][\A r \in Reqs :
         /\ Count(events'[r], "rpc") <= 1
         /\ Count(events'[r], "update") <= 1
         /\ (Remaining(r) > 0 /\ <<pc[r], events[r]>> # <<pc'[r], events'[r]>>)
                => Remaining(r)' < Remaining(r)
         /\ (route[r] = "redirect" /\ pc[r] = "done")
                => <<pc'[r], events'[r]>> = <<pc[r], events[r]>>
         /\ Cardinality(AccountingCalls') <= 2 * Cardinality(Resolutions')]_vars

\* two finished redirects, one that needed the update and one that did not
AccountingFinished ==
    \E r, q \in Reqs :
        /\ route[r] = "redirect" /\ pc[r] = "done" /\ Has(events[r], "update")
        /\ route[q] = "redirect" /\ pc[q] = "done"
        /\ Has(events[q], "rpc") /\ ~ Has(events[q], "update")

\* ------------------------------------------------ all handlers together
NextAll ==
    \E r \in 1..NAll :
        \/ Shorten(r, {UrlHttp, UrlSpace}, {NoHeader, "Bearer tA"})
        \/ ShortenGetUser(r)
        \/ ShortenInsert(r)
        \/ Redirect(r)
        \/ RedirectLookup(r)
        \/ IncrementClicks(r)
        \/ FallbackUpdate(r)
        \/ Stats(r)
        \/ StatsSelect(r)
        \/ Urls_(r, {NoHeader, "Bearer tA"})
        \/ UrlsGetUser(r)
        \/ UrlsSelect(r)

SpecAll == Init /\ [][NextAll]_vars

\* request r takes the step
Acts(r) == <<route[r], pc[r], events[r]>> # <<route'[r], pc'[r], events'[r]>>

\* C16: every row stays in the table with its short_code, original_url,
\* user_id and created_at; its clicks change only in a step of the click
\* accounting (rpc or update) of a redirect of that row's code; steps of
\* stats, listing and shorten requests keep every row as it is, and a
\* shorten answered 400 or 500 leaves the table unchanged.
RecordFrame ==
    [][/\ \A row \in urls :
            \E kept \in urls' :
                /\ kept.short_code = row.short_code
                /\ kept.original_url = row.original_url
                /\ kept.user_id = row.user_id
                /\ kept.created_at = row.created_at
                /\ kept.clicks # row.clicks
                     => \E r \in Reqs : /\ route[r] = "redirect"
                                        /\ req[r].shortCode = row.short_code
                                        /\ pc[r] \in {"rpc", "update"}
                                        /\ Acts(r)
       /\ \A r \in Reqs :
            Acts(r) =>
              /\ route'[r] \in {"stats", "urls", "shorten"} => urls \subseteq urls'
              /\ route'[r] \in {"stats", "urls"} => urls' = urls
              /\ (route'[r] = "shorten" /\ res'[r].status \in {400, 500})
                     => urls' = urls
              /\ (route'[r] = "redirect" /\ pc[r] \notin {"rpc", "update"})
                     => urls' = urls]_vars

\* a row created by a shorten request, counted by a redirect, next to the
\* initial row, which still has no clicks
RecordCounted ==
    \E r, q \in Reqs :
        /\ route[r] = "shorten" /\ res[r].status = 200
        /\ route[q] = "redirect" /\ pc[q] = "done"
        /\ req[q].shortCode = res[r].shortCode
        /\ \E row \in urls : row.short_code = res[r].shortCode /\ row.clicks = 1
        /\ \E row \in urls : row.short_code # res[r].shortCode /\ row.clicks = 0

\* ------------------------------------- redirects against a lossy store
\* the store may apply the increment and still report an error
NextLossy ==
    \E r \in 1..NLossy :
        \/ Redirect(r)
        \/ RedirectLookup(r)
        \/ IncrementClicksOf(r, {"ok", "error", "reject", "lost"})
        \/ FallbackUpdate(r)

SpecLossy == Init /\ [][NextLossy]_vars

\* the redirects answered so far with the target of the given code
ResolutionsOf(shortCode) ==
    {r \in Resolutions : req[r].shortCode = shortCode}

\* C17: the clicks of a row (0 when the row is created) never exceed the
\* number of redirect responses to the target of its code issued so far,
\* also when the store applies an increment and reports it as failed.
NeverOverCounts ==
    \A row \in urls :
        row.clicks <= Cardinality(ResolutionsOf(row.short_code))

\* a lone redirect whose increment was applied and reported as failed: the
\* count is already 1 and the fallback update is still to come
LostReplySeen ==
    \E r \in Reqs :
        /\ route[r] = "redirect" /\ pc[r] = "update"
        /\ \A q \in Reqs \ {r} : route[q] = "none"
        /\ \E row \in urls : row.short_code = req[r].shortCode /\ row.clicks = 1

\* ---------------------------------------- redirects, no failing increment
NextNoFail ==
    \E r \in 1..NNoFail :
        \/ Redirect(r)
        \/ RedirectLookup(r)
        \/ IncrementClicksOf(r, {"ok"})

\* the callbacks of settled promises are run by the event loop
FairNoFail ==
    \A r \in 1..NNoFail : WF_vars(IncrementClicksOf(r, {"ok"}))

SpecNoFail == Init /\ [][NextNoFail]_vars /\ FairNoFail

\* the redirects of a code whose accounting task has run
Counted(shortCode) ==
    {r \in ResolutionsOf(shortCode) : pc[r] = "done"}

\* C18: when no increment fails, no fallback update is ever issued, the
\* clicks of a row are at every moment the number of redirects of its code
\* whose accounting task has run (so n once all n tasks have run), and
\* every accounting task that was started does run.
ExactWhenNoFailure ==
    /\ [](\A r \in Reqs : ~ Has(events[r], "update"))
    /\ [](\A row \in urls :
              row.clicks = Cardinality(Counted(row.short_code)))
    /\ \A r \in Reqs : (pc[r] = "rpc") ~> (pc[r] = "done")

\* every request was a redirect of the initial row and all were counted
AllCounted ==
    /\ \A r \in 1..NNoFail : r \in Counted("aaaaaa")
    /\ \E row \in urls : row.short_code = "aaaaaa" /\ row.clicks = NNoFail

\* C19: a row created by a shorten request is owned by nobody or by the
\* user the auth service resolves that request's credential to; without a
\* header, or with a credential that resolves to no user, the row is owned
\* by nobody, and such a request is answered 200 unless its URL is invalid
\* or a store call failed; every row but the initial one was created by a
\* request answered 200.
OwnershipNotForged ==
    /\ \A r \in Reqs :
         route[r] = "shorten" =>
           LET principal == AuthUser(req[r].authorization) IN
           /\ res[r].status = 200
                => \A row \in RowsOf(res[r].shortCode) :
                       row.user_id \in {NullUser, principal}
           /\ (pc[r] = "done" /\ principal = NullUser
                              /\ req[r].originalUrl \notin Malformed)
                => /\ res[r].status \in {200, 500}
                   /\ res[r].status = 500
                        => events[r][Len(events[r]) - 1] \in {"throw", "unique", "error"}
    /\ \A row \in urls \ {InitialRow} :
         \E r \in Reqs : /\ route[r] = "shorten" /\ res[r].status = 200
                         /\ res[r].shortCode = row.short_code

\* one request created a row of its user, another, whose credential
\* resolves to no user, an anonymous row
OwnedAndAnonymous ==
    \E r, q \in Reqs :
        /\ route[r] = "shorten" /\ req[r].authorization = "Bearer tB"
        /\ res[r].status = 200
        /\ \E row \in RowsOf(res[r].shortCode) : row.user_id = "uB"
        /\ route[q] = "shorten" /\ req[q].authorization = "Bearer tX"
        /\ res[q].status = 200
        /\ \E row \in RowsOf(res[q].shortCode) : row.user_id = NullUser

====
